---- MODULE Spec2Model ----
(***************************************************************************)
(* rust-coinselect: the meta-selector select_coin and the selection        *)
(* algorithms it runs (Branch-and-Bound, FIFO, lowest-larger, knapsack,    *)
(* least-change Branch-and-Bound).                                         *)
(*                                                                         *)
(* Numbers.  u64 is modelled with a narrow word: values range over         *)
(* 0..U64Max and an unchecked `+` is computed modulo U64Max + 1.  Rust     *)
(* panics on an overflowing `+` when overflow checks are on (debug builds) *)
(* and wraps when they are off (release builds): every operator that holds *)
(* an unchecked `+` computes the wrapped value and raises the flag `ovf`;  *)
(* the action that ran it then either panics or carries on with the        *)
(* wrapped value.                                                          *)
(* Fee rates (f32) are rationals rate / RateDen; a negative rate stands    *)
(* for the rates calculate_fee rejects.  Waste (f32) is kept as the        *)
(* integer RateDen * waste, or NaN.                                        *)
(* Indices are 0-based as in the source; inputs[i] of the source is        *)
(* inputs[i + 1] here.                                                     *)
(* The variable `search` is the BnbContext of a Branch-and-Bound search    *)
(* together with the calls of bnb that are still to be made; SpecBnb runs  *)
(* that search one call of bnb at a time.                                  *)
(***************************************************************************)
EXTENDS Integers, Sequences, FiniteSets

VARIABLES inputs, options, pc, algo_results, results, output, wrapped, search

vars == <<inputs, options, pc, algo_results, results, output, wrapped, search>>

(* ------------------------------ bounds -------------------------------- *)

\* u64::MAX of the narrow word
U64Max == 15
\* denominator of the fee rates
RateDen == 2
\* longest input slice of small values
MaxInputs == 3
\* longest input slice of values near u64::MAX
MaxWideInputs == 4
\* largest of the small try budgets a Branch-and-Bound search is started with
MaxTries == 4

(* --------------------------- u64 arithmetic --------------------------- *)

Max(a, b) == IF a >= b THEN a ELSE b

Min(a, b) == IF a <= b THEN a ELSE b

\* a.saturating_sub(b)
saturating_sub(a, b) == IF a >= b THEN a - b ELSE 0

\* an unchecked a + b, as a build without overflow checks computes it
wrapping_add(a, b) == (a + b) % (U64Max + 1)

\* whether an unchecked a + b overflows (a panic when overflow checks are on)
overflows(a, b) == a + b > U64Max

(* ------------------------------ results ------------------------------- *)

Ok(v) == [ok |-> TRUE, val |-> v, err |-> "None"]

Err(e) == [ok |-> FALSE, val |-> 0, err |-> e]

\* a finite f32 waste w / RateDen
Waste(w) == [nan |-> FALSE, v |-> w]

NaNWaste == [nan |-> TRUE, v |-> 0]

\* f32 `<=`: false when either side is NaN
WasteLe(a, b) == ~a.nan /\ ~b.nan /\ a.v <= b.v

\* f32 `<`: false when either side is NaN
WasteLt(a, b) == ~a.nan /\ ~b.nan /\ a.v < b.v

\* Result<SelectionOutput, SelectionError>, with the overflow flag
OkSelection(sel, waste, ovf) ==
    [ok |-> TRUE, selected_inputs |-> sel, waste |-> waste, err |-> "None", ovf |-> ovf]

ErrSelection(e, ovf) ==
    [ok |-> FALSE, selected_inputs |-> <<>>, waste |-> Waste(0), err |-> e, ovf |-> ovf]

(* ------------------------- utils (from the spec) ---------------------- *)

\* sum(a, b): the overflow-checked addition
sum(a, b) == IF a + b > U64Max THEN Err("ArithmeticOverflow") ELSE Ok(a + b)

\* calculate_fee(weight, rate): ceil(weight * rate), the f32 -> u64 cast
\* saturating at u64::MAX; InvalidFeeRate for a negative rate
calculate_fee(weight, rate) ==
    IF rate < 0 THEN Err("InvalidFeeRate")
    ELSE Ok(Min((weight * rate) \div RateDen
                  + (IF (weight * rate) % RateDen > 0 THEN 1 ELSE 0),
                U64Max))

\* effective_value(group, feerate) = value - calculate_fee(weight), saturating
effective_value(group, feerate) ==
    LET fee == calculate_fee(group.weight, feerate)
    IN  IF fee.ok THEN Ok(saturating_sub(group.value, fee.val)) ELSE fee

\* calculate_waste(options, total_value, total_weight, current_fee)
calculate_waste(opts, total_value, total_weight, current_fee) ==
    LET excess == saturating_sub(saturating_sub(total_value, opts.target_value),
                                 current_fee)
        has_change == opts.excess_strategy = "ToChange"
                      /\ excess >= opts.min_change_value
        ltf == opts.long_term_feerate
        long_term == IF ltf.some THEN total_weight * ltf.rate ELSE 0
    IN  IF ltf.some /\ ltf.nan THEN NaNWaste
        ELSE Waste(RateDen * current_fee - long_term
                   + RateDen * (IF has_change THEN opts.change_cost ELSE excess))

(* ------------------------------ sorting ------------------------------- *)

\* inputs.iter().enumerate(): the (index, input) pairs, each with its sort key
enumerate(ins, key) ==
    [i \in 1..Len(ins) |-> [idx |-> i - 1, input |-> ins[i], key |-> key[i]]]

\* position at which x goes into the ascending run s: after every element
\* whose key is <= x.key (a stable sort keeps equal keys in slice order)
RECURSIVE insert_pos(_, _, _)
insert_pos(s, x, i) ==
    IF i > Len(s) \/ s[i].key > x.key THEN i ELSE insert_pos(s, x, i + 1)

insert_sorted(s, x) ==
    LET p == insert_pos(s, x, 1)
    IN  SubSeq(s, 1, p - 1) \o <<x>> \o SubSeq(s, p, Len(s))

\* a sort that leaves the slice as it is
sort_skipped(s) == s

\* slice::sort_by_key / sort_by: stable, ascending by key
RECURSIVE sort_by_key(_)
sort_by_key(s) ==
    IF s = <<>> THEN <<>>
    ELSE insert_sorted(sort_by_key(SubSeq(s, 1, Len(s) - 1)), s[Len(s)])

(* ------------------------- Branch and Bound --------------------------- *)

\* BnbContext.tries at the start of a search
BnbTries == 1000000

\* the test of lines 61-63 without the try counter
bnb_guard_unbounded(tries, depth, len) == depth >= len

\* the test of lines 61-63: the call returns at once
bnb_guard(tries, depth, len) == tries = 0 \/ depth >= len

\* one node of the depth-first search; returns the context after the subtree
RECURSIVE bnb(_, _, _, _, _, _)
bnb(sorted, selected, acc_value, acc_weight, depth, ctx) ==
    IF bnb_guard(ctx.tries, depth, Len(sorted)) THEN ctx
    ELSE
      LET fee_r == calculate_fee(acc_weight, ctx.options.target_feerate)
          fee == IF fee_r.ok THEN fee_r.val ELSE ctx.options.min_absolute_fee
          eff == saturating_sub(acc_value, fee)
          c1 == [ctx EXCEPT !.tries = @ - 1,
                            !.ovf = @ \/ overflows(ctx.target_for_match, ctx.match_range)]
      IN  IF eff > wrapping_add(ctx.target_for_match, ctx.match_range) THEN c1
          ELSE IF eff >= ctx.target_for_match THEN
            LET waste == calculate_waste(ctx.options, acc_value, acc_weight, fee)
            IN  IF ~c1.best_solution.some \/ WasteLt(waste, c1.best_solution.waste)
                THEN [c1 EXCEPT !.best_solution =
                        [some |-> TRUE, selected |-> selected, waste |-> waste]]
                ELSE c1
          ELSE
            LET index == sorted[depth + 1].idx
                input == sorted[depth + 1].input
                in_fee == calculate_fee(input.weight, ctx.options.target_feerate)
                input_effective_value ==
                    saturating_sub(input.value,
                                   IF in_fee.ok THEN in_fee.val
                                   ELSE ctx.options.min_absolute_fee)
                c2 == [c1 EXCEPT !.ovf = @ \/ overflows(acc_value, input_effective_value)
                                         \/ overflows(acc_weight, input.weight)]
                c3 == bnb(sorted, Append(selected, index),
                          wrapping_add(acc_value, input_effective_value),
                          wrapping_add(acc_weight, input.weight), depth + 1, c2)
            IN  bnb(sorted, selected, acc_value, acc_weight, depth + 1, c3)

\* target_for_match without min_change_value
bnb_context_no_min_change(opts, base_fee, cost_per_input, cost_per_output) ==
    LET floor_fee == Max(base_fee, opts.min_absolute_fee)
    IN  [target_for_match |-> wrapping_add(opts.target_value, floor_fee),
         match_range |-> wrapping_add(cost_per_input, cost_per_output),
         options |-> opts,
         tries |-> BnbTries,
         best_solution |-> [some |-> FALSE, selected |-> <<>>, waste |-> Waste(0)],
         ovf |-> overflows(opts.target_value, floor_fee)
                 \/ overflows(cost_per_input, cost_per_output)]

\* the BnbContext select_coin_bnb starts the search with
bnb_context(opts, base_fee, cost_per_input, cost_per_output) ==
    LET t1 == wrapping_add(opts.target_value, opts.min_change_value)
        floor_fee == Max(base_fee, opts.min_absolute_fee)
    IN  [target_for_match |-> wrapping_add(t1, floor_fee),
         match_range |-> wrapping_add(cost_per_input, cost_per_output),
         options |-> opts,
         tries |-> BnbTries,
         best_solution |-> [some |-> FALSE, selected |-> <<>>, waste |-> Waste(0)],
         ovf |-> overflows(opts.target_value, opts.min_change_value)
                 \/ overflows(t1, floor_fee)
                 \/ overflows(cost_per_input, cost_per_output)]

select_coin_bnb(ins, opts) ==
    LET cost_per_input == calculate_fee(opts.avg_input_weight, opts.target_feerate)
        cost_per_output == calculate_fee(opts.avg_output_weight, opts.target_feerate)
        base_fee == calculate_fee(opts.base_weight, opts.target_feerate)
    IN  IF ~cost_per_input.ok THEN ErrSelection(cost_per_input.err, FALSE)
        ELSE IF ~cost_per_output.ok THEN ErrSelection(cost_per_output.err, FALSE)
        ELSE IF ~base_fee.ok THEN ErrSelection(base_fee.err, FALSE)
        ELSE
          LET sorted_inputs ==
                  sort_by_key(enumerate(ins, [i \in 1..Len(ins) |-> ins[i].value]))
              ctx == bnb_context(opts, base_fee.val, cost_per_input.val,
                                 cost_per_output.val)
              done == bnb(sorted_inputs, <<>>, 0, 0, 0, ctx)
          IN  IF done.best_solution.some
              THEN OkSelection(done.best_solution.selected,
                               done.best_solution.waste, done.ovf)
              ELSE ErrSelection("NoSolutionFound", done.ovf)

\* the nodes the search examines, in the order it examines them: a node is
\* examined when the test of lines 61-63 lets it pass; seen = [tries, nodes]
RECURSIVE bnb_visited(_, _, _, _, _, _, _)
bnb_visited(sorted, selected, acc_value, acc_weight, depth, ctx, seen) ==
    IF bnb_guard(seen.tries, depth, Len(sorted)) THEN seen
    ELSE
      LET fee_r == calculate_fee(acc_weight, ctx.options.target_feerate)
          fee == IF fee_r.ok THEN fee_r.val ELSE ctx.options.min_absolute_fee
          eff == saturating_sub(acc_value, fee)
          upper == wrapping_add(ctx.target_for_match, ctx.match_range)
          node == [selected |-> selected, acc_value |-> acc_value,
                   acc_weight |-> acc_weight, effective_value |-> eff,
                   waste |-> calculate_waste(ctx.options, acc_value, acc_weight, fee),
                   matches |-> eff <= upper /\ eff >= ctx.target_for_match]
          s1 == [tries |-> seen.tries - 1, nodes |-> Append(seen.nodes, node)]
      IN  IF eff > upper \/ eff >= ctx.target_for_match THEN s1
          ELSE
            LET index == sorted[depth + 1].idx
                input == sorted[depth + 1].input
                in_fee == calculate_fee(input.weight, ctx.options.target_feerate)
                input_effective_value ==
                    saturating_sub(input.value,
                                   IF in_fee.ok THEN in_fee.val
                                   ELSE ctx.options.min_absolute_fee)
                s2 == bnb_visited(sorted, Append(selected, index),
                                  wrapping_add(acc_value, input_effective_value),
                                  wrapping_add(acc_weight, input.weight),
                                  depth + 1, ctx, s1)
            IN  bnb_visited(sorted, selected, acc_value, acc_weight, depth + 1, ctx, s2)

(* --------------------------- Lowest Larger ---------------------------- *)

\* the closure given to partition_point
ll_small(input, target, opts) ==
    LET fee == calculate_fee(input.weight, opts.target_feerate)
    IN  IF fee.ok
        THEN LET target_and_fee == sum(target, fee.val)
             IN  IF target_and_fee.ok THEN input.value <= target_and_fee.val ELSE FALSE
        ELSE FALSE

\* slice::partition_point: a binary search.  On a partitioned slice it is the
\* length of the prefix the closure accepts; otherwise the result is
\* unspecified, and a binary search ends at some index with an accepted element
\* before it and a rejected one at it.
partition_points(sorted, target, opts) ==
    {i \in 0..Len(sorted) :
        /\ (i = 0 \/ ll_small(sorted[i].input, target, opts))
        /\ (i = Len(sorted) \/ ~ll_small(sorted[i + 1].input, target, opts))}

\* one of the two accumulation loops over items[i..]; st.err is the error a `?`
\* returned, with_floor tells the second loop's break condition
RECURSIVE ll_accumulate(_, _, _, _, _, _)
ll_accumulate(items, i, st, target, opts, with_floor) ==
    IF i > Len(items) \/ st.err # "None" THEN st
    ELSE
      LET input == items[i].input
          v == sum(st.accumulated_value, input.value)
          w == sum(st.accumulated_weight, input.weight)
          f == IF w.ok THEN calculate_fee(w.val, opts.target_feerate) ELSE w
      IN  IF ~v.ok THEN [st EXCEPT !.err = v.err]
          ELSE IF ~w.ok THEN [st EXCEPT !.err = w.err]
          ELSE IF ~f.ok THEN [st EXCEPT !.err = f.err]
          ELSE
            LET st1 == [accumulated_value |-> v.val,
                        accumulated_weight |-> w.val,
                        estimated_fees |-> f.val,
                        selected_inputs |-> Append(st.selected_inputs, items[i].idx),
                        err |-> "None"]
                need == sum(target, IF with_floor
                                    THEN Max(f.val, opts.min_absolute_fee)
                                    ELSE f.val)
            IN  IF ~need.ok THEN [st1 EXCEPT !.err = need.err]
                ELSE IF v.val >= need.val THEN st1
                ELSE ll_accumulate(items, i + 1, st1, target, opts, with_floor)

\* a walk that does not reverse: the items in slice order
NotReversed(s) == s

\* Iterator::rev of line 35: the items last to first
Reverse(s) == [i \in 1..Len(s) |-> s[Len(s) + 1 - i]]

\* a second loop that forgets to skip: it goes over the whole sorted slice
ll_skip_nothing(items, n) == items

\* Iterator::skip(n) of line 47: the items after the first n
ll_skip(items, n) == SubSeq(items, n + 1, Len(items))

\* select_coin_lowestlarger after the sort, for the index partition_point gave
lowestlarger_from(sorted_inputs, index, target, opts) ==
    LET st0 == [accumulated_value |-> 0, accumulated_weight |-> 0,
                estimated_fees |-> 0, selected_inputs |-> <<>>, err |-> "None"]
        st1 == ll_accumulate(Reverse(SubSeq(sorted_inputs, 1, index)), 1, st0,
                             target, opts, FALSE)
        need1 == sum(target, st1.estimated_fees)
    IN  IF st1.err # "None" THEN ErrSelection(st1.err, FALSE)
        ELSE IF ~need1.ok THEN ErrSelection(need1.err, FALSE)
        ELSE
          LET st2 == IF st1.accumulated_value < need1.val
                     THEN ll_accumulate(ll_skip(sorted_inputs, index),
                                        1, st1, target, opts, TRUE)
                     ELSE st1
              need2 == sum(target, st2.estimated_fees)
          IN  IF st2.err # "None" THEN ErrSelection(st2.err, FALSE)
              ELSE IF ~need2.ok THEN ErrSelection(need2.err, FALSE)
              ELSE IF st2.accumulated_value < need2.val
              THEN ErrSelection("InsufficientFunds", FALSE)
              ELSE OkSelection(st2.selected_inputs,
                               calculate_waste(opts, st2.accumulated_value,
                                               st2.accumulated_weight,
                                               st2.estimated_fees),
                               FALSE)

\* the key of the sort: effective_value(input, target_feerate), the rate valid
ll_sorted(ins, opts) ==
    sort_by_key(enumerate(ins,
        [i \in 1..Len(ins) |-> effective_value(ins[i], opts.target_feerate).val]))

\* a target that leaves min_absolute_fee out: base_fees alone
ll_target_no_floor(opts) ==
    LET base_fees == calculate_fee(opts.base_weight, opts.target_feerate)
        t1 == sum(opts.target_value, opts.min_change_value)
    IN  IF ~base_fees.ok THEN base_fees
        ELSE IF ~t1.ok THEN t1
        ELSE sum(t1.val, base_fees.val)

\* target = target_value + min_change_value + max(base_fees, min_absolute_fee)
ll_target(opts) ==
    LET base_fees == calculate_fee(opts.base_weight, opts.target_feerate)
        t1 == sum(opts.target_value, opts.min_change_value)
    IN  IF ~base_fees.ok THEN base_fees
        ELSE IF ~t1.ok THEN t1
        ELSE sum(t1.val, Max(base_fees.val, opts.min_absolute_fee))

\* the results select_coin_lowestlarger can return: one per index
\* partition_point can give
select_coin_lowestlarger(ins, opts) ==
    LET target == ll_target(opts)
    IN  IF ~target.ok THEN {ErrSelection(target.err, FALSE)}
        ELSE {lowestlarger_from(ll_sorted(ins, opts), index, target.val, opts) :
                index \in partition_points(ll_sorted(ins, opts), target.val, opts)}

(* --------------------- Least-change Branch and Bound ------------------ *)

\* a filter that drops nothing: every input, an effective value of 0 or an
\* error included, as (idx, net_value, weight)
RECURSIVE lc_filter_all(_, _, _)
lc_filter_all(ins, opts, i) ==
    IF i > Len(ins) THEN <<>>
    ELSE LET net == effective_value(ins[i], opts.target_feerate)
             v == IF net.ok THEN net.val ELSE 0
         IN  <<[idx |-> i - 1, net_value |-> v, weight |-> ins[i].weight,
                key |-> 0 - v]>> \o lc_filter_all(ins, opts, i + 1)

\* the inputs with a positive effective value, as (idx, net_value, weight)
RECURSIVE lc_filter(_, _, _)
lc_filter(ins, opts, i) ==
    IF i > Len(ins) THEN <<>>
    ELSE LET net == effective_value(ins[i], opts.target_feerate)
             rest == lc_filter(ins, opts, i + 1)
         IN  IF net.ok /\ net.val > 0
             THEN <<[idx |-> i - 1, net_value |-> net.val, weight |-> ins[i].weight,
                     key |-> 0 - net.val]>> \o rest
             ELSE rest

\* the filtered inputs left in slice order
lc_unsorted(ins, opts) == lc_filter(ins, opts, 1)

\* filtered.sort_by(|a, b| b.cmp(a)): stable, descending by net value
lc_sorted(ins, opts) == sort_by_key(lc_filter(ins, opts, 1))

\* remaining_net[i..n] by the unchecked suffix sums, as <<values, overflowed>>;
\* values[j] is remaining_net[j - 1] of the source
RECURSIVE lc_remaining_net(_, _)
lc_remaining_net(filtered, i) ==
    IF i > Len(filtered) THEN [net |-> <<0>>, ovf |-> FALSE]
    ELSE LET rest == lc_remaining_net(filtered, i + 1)
         IN  [net |-> <<wrapping_add(rest.net[1], filtered[i].net_value)>> \o rest.net,
              ovf |-> rest.ovf \/ overflows(rest.net[1], filtered[i].net_value)]

\* lines 62-64: the state cannot reach the target
lc_prune(reach, target) == reach < target

\* the while loop over the stack; acc = [best, ovf]
RECURSIVE lc_search(_, _, _, _, _, _)
lc_search(stack, acc, filtered, remaining_net, target, opts) ==
    IF stack = <<>> THEN acc
    ELSE
      LET state == stack[Len(stack)]
          popped == SubSeq(stack, 1, Len(stack) - 1)
      IN  IF state.index >= Len(filtered)
          THEN lc_search(popped, acc, filtered, remaining_net, target, opts)
          ELSE
            LET reach == wrapping_add(state.current_eff_value,
                                      remaining_net[state.index + 1])
                ovf1 == acc.ovf \/ overflows(state.current_eff_value,
                                             remaining_net[state.index + 1])
            IN  IF lc_prune(reach, target)
                THEN lc_search(popped, [acc EXCEPT !.ovf = ovf1],
                               filtered, remaining_net, target, opts)
                ELSE
                  LET skip == [state EXCEPT !.index = @ + 1]
                      item == filtered[state.index + 1]
                      new_eff_value == wrapping_add(state.current_eff_value,
                                                    item.net_value)
                      new_selection == Append(state.current_selection, item.idx)
                      new_count == state.current_count + 1
                      new_weight == wrapping_add(state.current_weight, item.weight)
                      fee_r == calculate_fee(new_weight, opts.target_feerate)
                      estimated_fees == IF fee_r.ok THEN fee_r.val ELSE 0
                      floor_fee == Max(estimated_fees, opts.min_absolute_fee)
                      r1 == wrapping_add(opts.target_value, floor_fee)
                      required_value == wrapping_add(r1, opts.min_change_value)
                      ovf2 == \/ ovf1
                              \/ overflows(state.current_eff_value, item.net_value)
                              \/ overflows(state.current_weight, item.weight)
                              \/ overflows(opts.target_value, floor_fee)
                              \/ overflows(r1, opts.min_change_value)
                      change == new_eff_value - required_value
                      update == \/ ~acc.best.some
                                \/ change < acc.best.change
                                \/ (change = acc.best.change
                                    /\ new_count < acc.best.count)
                  IN  IF new_eff_value >= required_value
                      THEN lc_search(Append(popped, skip),
                                     [best |-> IF update
                                               THEN [some |-> TRUE,
                                                     selection |-> new_selection,
                                                     change |-> change,
                                                     count |-> new_count]
                                               ELSE acc.best,
                                      ovf |-> ovf2],
                                     filtered, remaining_net, target, opts)
                      ELSE lc_search(Append(Append(popped, skip),
                                            [index |-> state.index + 1,
                                             current_eff_value |-> new_eff_value,
                                             current_selection |-> new_selection,
                                             current_count |-> new_count,
                                             current_weight |-> new_weight]),
                                     [acc EXCEPT !.ovf = ovf2],
                                     filtered, remaining_net, target, opts)

\* iter().sum::<u64>(): the unchecked left fold of `+` over vals[i..]
RECURSIVE unchecked_sum(_, _, _)
unchecked_sum(vals, i, acc) ==
    IF i > Len(vals) THEN acc
    ELSE unchecked_sum(vals, i + 1,
                       [val |-> wrapping_add(acc.val, vals[i]),
                        ovf |-> acc.ovf \/ overflows(acc.val, vals[i])])

\* the unchecked sum of field f (as a sequence over the slice) over a selection
selected_sum(field, sel) ==
    unchecked_sum([k \in 1..Len(sel) |-> field[sel[k] + 1]], 1,
                  [val |-> 0, ovf |-> FALSE])

\* select_coin_bnb_leastchange from line 26 on, pruning against `target`;
\* target_ovf tells that the sum of line 22 overflowed
leastchange_with(ins, opts, target, target_ovf) ==
    LET filtered == lc_sorted(ins, opts)
        remaining == lc_remaining_net(filtered, 1)
        found == lc_search(<<[index |-> 0, current_eff_value |-> 0,
                              current_selection |-> <<>>, current_count |-> 0,
                              current_weight |-> 0]>>,
                           [best |-> [some |-> FALSE, selection |-> <<>>,
                                      change |-> 0, count |-> 0],
                            ovf |-> remaining.ovf \/ target_ovf],
                           filtered, remaining.net, target, opts)
    IN  IF found.best.some
        THEN LET sel == found.best.selection
                 total_value ==
                     selected_sum([i \in 1..Len(ins) |-> ins[i].value], sel)
                 total_weight ==
                     selected_sum([i \in 1..Len(ins) |-> ins[i].weight], sel)
                 fee_r == calculate_fee(total_weight.val, opts.target_feerate)
                 estimated_fees == IF fee_r.ok THEN fee_r.val ELSE 0
             IN  OkSelection(sel,
                             calculate_waste(opts, total_value.val, total_weight.val,
                                             estimated_fees),
                             found.ovf \/ total_value.ovf \/ total_weight.ovf)
        ELSE ErrSelection("InsufficientFunds", found.ovf)

select_coin_bnb_leastchange(ins, opts) ==
    leastchange_with(ins, opts,
                     wrapping_add(opts.target_value, opts.min_change_value),
                     overflows(opts.target_value, opts.min_change_value))

(* ------------------------- FIFO (from the spec) ----------------------- *)

\* acc_value >= target_value + max(current_fee, min_absolute_fee) + min_change_value,
\* the sums checked
target_met(acc_value, acc_weight, opts) ==
    LET fee == calculate_fee(acc_weight, opts.target_feerate)
        n1 == IF fee.ok
              THEN sum(opts.target_value, Max(fee.val, opts.min_absolute_fee))
              ELSE fee
        n2 == IF n1.ok THEN sum(n1.val, opts.min_change_value) ELSE n1
    IN  IF n2.ok THEN Ok(acc_value >= n2.val) ELSE n2

\* greedy accumulation over items[i..] until the target is met
RECURSIVE accumulate(_, _, _, _)
accumulate(items, i, st, opts) ==
    IF i > Len(items) \/ st.err # "None" \/ st.met THEN st
    ELSE
      LET v == sum(st.acc_value, items[i].input.value)
          w == sum(st.acc_weight, items[i].input.weight)
          met == IF v.ok /\ w.ok THEN target_met(v.val, w.val, opts) ELSE Err("None")
      IN  IF ~v.ok THEN [st EXCEPT !.err = v.err]
          ELSE IF ~w.ok THEN [st EXCEPT !.err = w.err]
          ELSE IF ~met.ok THEN [st EXCEPT !.err = met.err]
          ELSE accumulate(items, i + 1,
                          [acc_value |-> v.val, acc_weight |-> w.val,
                           selected |-> Append(st.selected, items[i]),
                           met |-> met.val, err |-> "None"],
                          opts)

accumulate_start == [acc_value |-> 0, acc_weight |-> 0, selected |-> <<>>,
                     met |-> FALSE, err |-> "None"]

\* the selection a finished accumulation stands for
accumulated_output(st, opts) ==
    IF st.err # "None" THEN ErrSelection(st.err, FALSE)
    ELSE IF ~st.met THEN ErrSelection("InsufficientFunds", FALSE)
    ELSE OkSelection([k \in 1..Len(st.selected) |-> st.selected[k].idx],
                     calculate_waste(opts, st.acc_value, st.acc_weight,
                                     calculate_fee(st.acc_weight,
                                                   opts.target_feerate).val),
                     FALSE)

\* sort key of creation_sequence: None after every Some
fifo_key(group) ==
    IF group.creation_sequence.some THEN group.creation_sequence.seq ELSE U64Max + 1

select_coin_fifo(ins, opts) ==
    accumulated_output(
        accumulate(sort_by_key(enumerate(ins, [i \in 1..Len(ins) |-> fifo_key(ins[i])])),
                   1, accumulate_start, opts),
        opts)

(* ----------------------- Knapsack (from the spec) --------------------- *)

\* drop selected[i..] one by one where the rest still meets the target
RECURSIVE reduce_excess(_, _, _)
reduce_excess(st, i, opts) ==
    IF i > Len(st.selected) THEN st
    ELSE
      LET g == st.selected[i].input
          met == IF st.acc_value >= g.value /\ st.acc_weight >= g.weight
                 THEN target_met(st.acc_value - g.value, st.acc_weight - g.weight, opts)
                 ELSE Ok(FALSE)
      IN  IF met.ok /\ met.val
          THEN reduce_excess([st EXCEPT !.acc_value = @ - g.value,
                                        !.acc_weight = @ - g.weight,
                                        !.selected = SubSeq(@, 1, i - 1)
                                                     \o SubSeq(@, i + 1, Len(@))],
                             i, opts)
          ELSE reduce_excess(st, i + 1, opts)

\* one trial: the inputs in the order the shuffle gave
knapsack_trial(ins, order, opts) ==
    LET items == [k \in 1..Len(ins) |->
                     [idx |-> order[k] - 1, input |-> ins[order[k]], key |-> 0]]
        st == accumulate(items, 1, accumulate_start, opts)
    IN  accumulated_output(IF st.err = "None" /\ st.met
                           THEN reduce_excess(st, 1, opts) ELSE st,
                           opts)

Permutations(n) == {f \in [1..n -> 1..n] : \A i, j \in 1..n : f[i] = f[j] => i = j}

\* the results select_coin_knapsack can return: the best of the trials the
\* generator produced, which is any trial's when the shuffles coincide
select_coin_knapsack(ins, opts) ==
    {knapsack_trial(ins, order, opts) : order \in Permutations(Len(ins))}

(* ---------------------------- select_coin ----------------------------- *)

\* the algorithm table, in the order select_coin runs it
algorithms == <<"bnb", "fifo", "lowestlarger", "knapsack", "leastchange">>

\* algo(inputs, options) for the algorithm named: the results it can return
run_algorithm(name, ins, opts) ==
    CASE name = "bnb" -> {select_coin_bnb(ins, opts)}
      [] name = "fifo" -> {select_coin_fifo(ins, opts)}
      [] name = "lowestlarger" -> select_coin_lowestlarger(ins, opts)
      [] name = "knapsack" -> select_coin_knapsack(ins, opts)
      [] name = "leastchange" -> {select_coin_bnb_leastchange(ins, opts)}

\* the comparison given to min_by: TRUE when a is Greater than b
\* (change, then waste with an undefined partial_cmp taken as Equal, then length)
compare_greater(a, b) ==
    IF a.change # b.change THEN a.change > b.change
    ELSE IF WasteLt(b.result.waste, a.result.waste) THEN TRUE
    ELSE IF WasteLt(a.result.waste, b.result.waste) THEN FALSE
    ELSE Len(a.result.selected_inputs) > Len(b.result.selected_inputs)

\* Iterator::min_by over rs[i..]: the later element replaces the best only
\* when the best is Greater
RECURSIVE min_by(_, _, _)
min_by(rs, i, best) ==
    IF i > Len(rs) THEN best
    ELSE min_by(rs, i + 1, IF compare_greater(best, rs[i]) THEN rs[i] ELSE best)

NotRun == ErrSelection("NotRun", FALSE)

Panicked == ErrSelection("Panicked", FALSE)

NoSequence == [some |-> FALSE, seq |-> 0]

Group(v, w) == [value |-> v, weight |-> w, creation_sequence |-> NoSequence]

Rate(r) == [some |-> TRUE, nan |-> FALSE, rate |-> r]

NoRate == [some |-> FALSE, nan |-> FALSE, rate |-> 0]

\* inputs and options whose sums stay far below u64::MAX
SmallGroups ==
    {Group(2, 0), Group(2, 1), Group(3, 2),
     [value |-> 3, weight |-> 1, creation_sequence |-> [some |-> TRUE, seq |-> 0]]}

\* groups among which one costs more in fees than it is worth (at rate 1)
DustGroups == {Group(1, 3), Group(2, 0), Group(3, 2)}

SmallLists ==
    UNION {[1..n -> SmallGroups] \cup [1..n -> DustGroups] : n \in 0..MaxInputs}

\* options with a positive target and a valid fee rate; the fee floor and the
\* change floor are not both raised, and ToRecipient comes with a long-term rate
MainOptions ==
    {o \in [target_value : {1, 3},
            target_feerate : {0, 1, RateDen},
            long_term_feerate : {NoRate, Rate(1)},
            min_absolute_fee : {0, 1},
            base_weight : {0},
            change_weight : {1},
            change_cost : {1},
            avg_input_weight : {1},
            avg_output_weight : {0},
            min_change_value : {0, 1},
            excess_strategy : {"ToChange", "ToRecipient"}] :
        /\ o.min_absolute_fee = 0 \/ o.min_change_value = 0
        /\ o.long_term_feerate.some \/ o.excess_strategy = "ToChange"}

\* options with target_value = 0 or a negative fee rate
EdgeOptions ==
    {o \in [target_value : {0, 1},
            target_feerate : {0 - 1, 1},
            long_term_feerate : {Rate(1)},
            min_absolute_fee : {0},
            base_weight : {0},
            change_weight : {1},
            change_cost : {1},
            avg_input_weight : {1},
            avg_output_weight : {0},
            min_change_value : {0, 1},
            excess_strategy : {"ToChange"}] :
        o.target_value = 0 \/ o.target_feerate < 0}

SmallOptions == MainOptions \cup EdgeOptions

\* inputs and options near u64::MAX
WideGroups == {Group(3, 1), Group(U64Max - 1, 1), Group(U64Max, 0)}

WideLists == UNION {[1..n -> WideGroups] : n \in 1..MaxWideInputs}

WideOptions ==
    [target_value : {U64Max - 1},
     target_feerate : {0},
     long_term_feerate : {Rate(RateDen)},
     min_absolute_fee : {0},
     base_weight : {0},
     change_weight : {1},
     change_cost : {1},
     avg_input_weight : {1},
     avg_output_weight : {0},
     min_change_value : {0, 1, 2},
     excess_strategy : {"ToChange", "ToRecipient"}]

\* the search state before select_coin_bnb runs: the context holds `tries`
\* tries and no solution, no call of bnb is pending; `budget` remembers the
\* tries the context started with and `examined` counts the calls that passed
\* the test of lines 61-63
NewSearch(tries) ==
    [tries |-> tries, budget |-> tries, examined |-> 0,
     target_for_match |-> 0, match_range |-> 0,
     best_solution |-> [some |-> FALSE, selected |-> <<>>, waste |-> Waste(0)],
     calls |-> <<>>]

\* inputs above a target whose fee floor exceeds every fee, still far below
\* u64::MAX
FloorGroups == {Group(2, 0), Group(4, 0)}

FloorLists == UNION {[1..n -> FloorGroups] : n \in 1..MaxInputs}

FloorOptions ==
    [target_value : {1},
     target_feerate : {0, 1},
     long_term_feerate : {Rate(1)},
     min_absolute_fee : {2},
     base_weight : {0},
     change_weight : {1},
     change_cost : {1},
     avg_input_weight : {1},
     avg_output_weight : {0},
     min_change_value : {0},
     excess_strategy : {"ToChange"}]

\* inputs next to a target so close to u64::MAX that target + fee overflows
\* for the input that has a weight: the closure of partition_point is false
\* on it and true on inputs sorted before and after it
SplitGroups == {Group(U64Max - 8, 0), Group(U64Max - 5, 3), Group(U64Max - 2, 0)}

SplitLists == UNION {[1..n -> SplitGroups] : n \in 1..MaxWideInputs}

SplitOptions ==
    [target_value : {U64Max - 2},
     target_feerate : {RateDen},
     long_term_feerate : {Rate(RateDen)},
     min_absolute_fee : {0},
     base_weight : {0},
     change_weight : {1},
     change_cost : {1},
     avg_input_weight : {1},
     avg_output_weight : {0},
     min_change_value : {0},
     excess_strategy : {"ToChange"}]

Fresh ==
    /\ pc = "start"
    /\ algo_results = [a \in {algorithms[i] : i \in 1..Len(algorithms)} |-> NotRun]
    /\ results = <<>>
    /\ output = NotRun
    /\ wrapped = FALSE
    /\ search = NewSearch(BnbTries)

InitSmall == inputs \in SmallLists /\ options \in SmallOptions /\ Fresh

InitWide == inputs \in WideLists /\ options \in WideOptions /\ Fresh

InitFloor == inputs \in FloorLists /\ options \in FloorOptions /\ Fresh

InitSplit == inputs \in SplitLists /\ options \in SplitOptions /\ Fresh

Init == InitSmall \/ InitWide \/ InitFloor \/ InitSplit

\* CheckTarget without the test of lines 23-25
CheckTarget_unchecked ==
    /\ pc = "start"
    /\ pc' = algorithms[1]
    /\ UNCHANGED <<inputs, options, algo_results, results, output, wrapped, search>>

\* select_coin, lines 23-25: the target check before anything runs
CheckTarget ==
    /\ pc = "start"
    /\ IF options.target_value = 0
       THEN /\ output' = ErrSelection("NonPositiveTarget", FALSE)
            /\ pc' = "done"
       ELSE /\ output' = output
            /\ pc' = algorithms[1]
    /\ UNCHANGED <<inputs, options, algo_results, results, wrapped, search>>

next_pc(name) ==
    LET i == CHOOSE k \in 1..Len(algorithms) : algorithms[k] = name
    IN  IF i = Len(algorithms) THEN "reduce" ELSE algorithms[i + 1]

\* one turn of the loop of lines 41-51 for the algorithm `name`
RunAlgorithm(name) ==
    /\ pc = name
    /\ \E r \in run_algorithm(name, inputs, options) :
         LET input_amount ==
                 selected_sum([i \in 1..Len(inputs) |-> inputs[i].value],
                              r.selected_inputs)
             change == saturating_sub(input_amount.val, options.target_value)
             ovf == r.ovf \/ (r.ok /\ input_amount.ovf)
         IN  \/ /\ ovf /\ ~wrapped
                /\ pc' = "panicked"
                /\ algo_results' = [algo_results EXCEPT ![name] =
                                      IF r.ovf THEN Panicked ELSE r]
                /\ UNCHANGED <<results, wrapped>>
             \/ /\ pc' = next_pc(name)
                /\ wrapped' = (wrapped \/ ovf)
                /\ algo_results' = [algo_results EXCEPT ![name] = r]
                /\ results' = IF r.ok
                              THEN Append(results, [result |-> r, change |-> change,
                                                    algo_name |-> name])
                              ELSE results
    /\ UNCHANGED <<inputs, options, output, search>>

RunBnb == RunAlgorithm("bnb")

RunFifo == RunAlgorithm("fifo")

RunLowestLarger == RunAlgorithm("lowestlarger")

RunKnapsack == RunAlgorithm("knapsack")

RunLeastChange == RunAlgorithm("leastchange")

\* lines 53-73: the reduction of the successful results
Reduce ==
    /\ pc = "reduce"
    /\ output' = IF results = <<>> THEN ErrSelection("InsufficientFunds", FALSE)
                 ELSE min_by(results, 2, results[1]).result
    /\ pc' = "done"
    /\ UNCHANGED <<inputs, options, algo_results, results, wrapped, search>>

Next ==
    \/ CheckTarget
    \/ RunBnb
    \/ RunFifo
    \/ RunLowestLarger
    \/ RunKnapsack
    \/ RunLeastChange
    \/ Reduce

Spec == Init /\ [][Next]_vars

\* the runs in which no sum can come near u64::MAX
SpecSmall == (InitSmall \/ InitFloor) /\ [][Next]_vars

(* ------------------- quantities the claims speak of ------------------- *)

\* exact (unbounded) sum of f[i + 1] over the 0-based indices of sel
RECURSIVE total(_, _, _)
total(f, sel, i) == IF i > Len(sel) THEN 0 ELSE f[sel[i] + 1] + total(f, sel, i + 1)

value_of == [i \in 1..Len(inputs) |-> inputs[i].value]

weight_of == [i \in 1..Len(inputs) |-> inputs[i].weight]

\* effective_value(input, target_feerate), 0 where it is an error (filter_map .ok())
eff_of ==
    [i \in 1..Len(inputs) |->
        LET e == effective_value(inputs[i], options.target_feerate)
        IN  IF e.ok THEN e.val ELSE 0]

all_indices == [i \in 1..Len(inputs) |-> i - 1]

algorithm_names == {algorithms[i] : i \in 1..Len(algorithms)}

returned_ok == pc = "done" /\ output.ok

indices_valid(sel) ==
    /\ \A k \in 1..Len(sel) : sel[k] >= 0 /\ sel[k] < Len(inputs)
    /\ \A j, k \in 1..Len(sel) : sel[j] = sel[k] => j = k

(* ------------------------------- claims ------------------------------- *)

\* C1: if select_coin returns Ok (target_value > 0), the sum of the effective
\* values of the selected inputs is at least target_value.
C1_Coverage ==
    (returned_ok /\ options.target_value > 0)
        => total(eff_of, output.selected_inputs, 1) >= options.target_value

\* C2: with target_value = 0 select_coin returns NonPositiveTarget, and no
\* algorithm has been invoked when it does.
C2_NonPositiveTarget ==
    (options.target_value = 0 /\ pc # "start")
        => /\ pc = "done"
           /\ output = ErrSelection("NonPositiveTarget", FALSE)
           /\ \A a \in algorithm_names : algo_results[a] = NotRun
           /\ results = <<>>

C2_Witness ==
    /\ options.target_value = 0
    /\ inputs # <<>>
    /\ pc = "done"
    /\ output.err = "NonPositiveTarget"

\* (change, waste, number of inputs) of a successful result, the change being
\* the exact sum of the selected values minus target_value, saturating at 0
exact_change(sel) ==
    saturating_sub(total(value_of, sel, 1), options.target_value)

\* tuple of a <= tuple of b, lexicographically, a NaN waste comparing equal
tuple_leq(a, b) ==
    \/ exact_change(a.selected_inputs) < exact_change(b.selected_inputs)
    \/ /\ exact_change(a.selected_inputs) = exact_change(b.selected_inputs)
       /\ \/ WasteLt(a.waste, b.waste)
          \/ /\ ~WasteLt(b.waste, a.waste)
             /\ Len(a.selected_inputs) <= Len(b.selected_inputs)

\* C3: the result select_coin returns has a (change, waste, |selection|) tuple
\* lexicographically <= that of every algorithm that returned Ok.
C3_LexMinimal ==
    returned_ok =>
        \A a \in algorithm_names :
            algo_results[a].ok => tuple_leq(output, algo_results[a])

\* C4: with target_value > 0 and the effective values of all inputs summing to
\* less than target_value, select_coin returns InsufficientFunds.
C4_InsufficientFunds ==
    (pc = "done" /\ options.target_value > 0
        /\ total(eff_of, all_indices, 1) < options.target_value)
        => (~output.ok /\ output.err = "InsufficientFunds")

\* C5: no addition inside select_coin and the algorithms overflows u64: none
\* panics and none wraps.
C5_NoOverflow == pc # "panicked" /\ ~wrapped

\* C6: the indices select_coin and the algorithms return are positions of the
\* caller's slice, and none occurs twice.
C6_IndicesValid ==
    /\ output.ok => indices_valid(output.selected_inputs)
    /\ \A a \in algorithm_names :
          algo_results[a].ok => indices_valid(algo_results[a].selected_inputs)

C6_Witness ==
    /\ returned_ok
    /\ Len(output.selected_inputs) >= 2
    /\ \A a \in {"bnb", "lowestlarger", "leastchange"} :
          algo_results[a].ok /\ Len(algo_results[a].selected_inputs) >= 2
    /\ \E a \in algorithm_names :
          algo_results[a].selected_inputs[1] > algo_results[a].selected_inputs[2]

\* C7: with target_value > 0 select_coin returns an error exactly when every
\* algorithm returned an error, the error is InsufficientFunds, and it returns
\* Ok when some algorithm returned Ok.
C7_ErrorIffAllFailed ==
    options.target_value > 0 =>
        /\ (pc = "done" /\ ~output.ok)
              => /\ output.err = "InsufficientFunds"
                 /\ \A a \in algorithm_names : ~algo_results[a].ok
        /\ (pc \in {"done", "panicked"} /\ \E a \in algorithm_names : algo_results[a].ok)
              => returned_ok

\* C8: no algorithm that succeeded has a waste strictly lower than that of the
\* result select_coin returns.
C8_LowestWaste ==
    returned_ok =>
        \A a \in algorithm_names :
            algo_results[a].ok => ~WasteLt(algo_results[a].waste, output.waste)

\* fee of a weight at target_feerate, the rate valid
fee_of(weight) == calculate_fee(weight, options.target_feerate).val

\* ctx.target_for_match: target_value + min_change_value +
\* max(calculate_fee(base_weight), min_absolute_fee), the u64 the unchecked `+`
\* of bnb.rs:31-33 leaves
target_for_match ==
    wrapping_add(wrapping_add(options.target_value, options.min_change_value),
                 Max(fee_of(options.base_weight), options.min_absolute_fee))

\* ctx.match_range: calculate_fee(avg_input_weight) +
\* calculate_fee(avg_output_weight), the u64 the unchecked `+` of bnb.rs:34 leaves
match_range ==
    wrapping_add(fee_of(options.avg_input_weight), fee_of(options.avg_output_weight))

\* C9 as claimed: the sum of the value fields of the selection select_coin_bnb
\* returns lies in [target_for_match, target_for_match + match_range].
C9_PreFeeValueInWindow ==
    algo_results["bnb"].ok =>
        LET pre_fee == total(value_of, algo_results["bnb"].selected_inputs, 1)
        IN  target_for_match <= pre_fee /\ pre_fee <= target_for_match + match_range

\* u64 sum of f over sel, as a chain of unchecked `+` gives it
u64_total(f, sel) == total(f, sel, 1) % (U64Max + 1)

\* C9, amended: what lies in the window is acc_effective, the sum of the
\* effective values of the selection less the fee of its summed weight
\* (saturating at 0), each sum being the u64 sum the search computes.
C9_AccEffectiveInWindow ==
    algo_results["bnb"].ok =>
        LET sel == algo_results["bnb"].selected_inputs
            acc_effective == saturating_sub(u64_total(eff_of, sel),
                                            fee_of(u64_total(weight_of, sel)))
        IN  /\ target_for_match <= acc_effective
            /\ acc_effective <= wrapping_add(target_for_match, match_range)

C9_Witness ==
    /\ algo_results["bnb"].ok
    /\ ~wrapped
    /\ Len(algo_results["bnb"].selected_inputs) >= 2
    /\ total(value_of, algo_results["bnb"].selected_inputs, 1)
          > target_for_match + match_range

\* change of a selection: new_eff_value less required_value, each the u64 the
\* unchecked `+` of leastchange.rs:75-85 leaves; below 0 where the test of line
\* 87 fails
change_of(idx) ==
    LET new_eff_value == u64_total(eff_of, idx)
        estimated_fees == fee_of(u64_total(weight_of, idx))
        required_value ==
            wrapping_add(wrapping_add(options.target_value,
                                      Max(estimated_fees, options.min_absolute_fee)),
                         options.min_change_value)
    IN  new_eff_value - required_value

subset_indices(S) ==
    LET q == CHOOSE q \in [1..Cardinality(S) -> S] :
                 \A i, j \in 1..Cardinality(S) : i < j => q[i] < q[j]
    IN  [k \in 1..Cardinality(S) |-> q[k] - 1]

\* C10: among the feasible subsets of the inputs select_coin_bnb_leastchange
\* returns one of minimal change and, among those, of fewest inputs.
C10_LeastChange ==
    (algo_results["leastchange"] \notin {NotRun, Panicked}
        /\ options.target_feerate >= 0)
        => \A S \in SUBSET (1..Len(inputs)) :
              change_of(subset_indices(S)) >= 0
                  => /\ algo_results["leastchange"].ok
                     /\ LET mine == algo_results["leastchange"].selected_inputs
                        IN  /\ change_of(mine) >= 0
                            /\ \/ change_of(mine) < change_of(subset_indices(S))
                               \/ /\ change_of(mine) = change_of(subset_indices(S))
                                  /\ Len(mine) <= Cardinality(S)

\* the sorted slice and the context select_coin_bnb gives the search (the fee
\* rate valid)
bnb_sorted == sort_by_key(enumerate(inputs, value_of))

bnb_ctx ==
    bnb_context(options, fee_of(options.base_weight),
                fee_of(options.avg_input_weight), fee_of(options.avg_output_weight))

\* the nodes the search of select_coin_bnb examines on the inputs and options
bnb_search == bnb_visited(bnb_sorted, <<>>, 0, 0, 0, bnb_ctx,
                          [tries |-> bnb_ctx.tries, nodes |-> <<>>])

bnb_result == algo_results["bnb"]

\* select_coin_bnb has just returned, the fee rate being valid
bnb_returned == pc = "fifo" /\ options.target_feerate >= 0

\* C11: with a valid fee rate select_coin_bnb returns NoSolutionFound exactly
\* when no node the search examined has its acc_effective in the window, it
\* never returns InsufficientFunds, and it returns NoSolutionFound whenever the
\* values of all inputs sum to less than target_value.
C11_NoSolutionFound ==
    bnb_returned =>
        /\ (~bnb_result.ok /\ bnb_result.err = "NoSolutionFound")
              <=> LET nodes == bnb_search.nodes
                  IN  \A k \in 1..Len(nodes) : ~nodes[k].matches
        /\ bnb_result.err # "InsufficientFunds"
        /\ total(value_of, all_indices, 1) < options.target_value
              => (~bnb_result.ok /\ bnb_result.err = "NoSolutionFound")

lc_result == algo_results["leastchange"]

\* select_coin_bnb_leastchange has just returned
lc_returned == pc = "reduce"

\* the positions (1-based) of the inputs with a positive effective value
positive_inputs == {i \in 1..Len(inputs) : eff_of[i] > 0}

\* C12: select_coin_bnb_leastchange returns InsufficientFunds exactly when no
\* subset of the inputs with positive effective value is feasible, and it does
\* so when all effective values sum to less than target_value + min_change_value.
C12_InsufficientIffInfeasible ==
    lc_returned =>
        /\ (~lc_result.ok /\ lc_result.err = "InsufficientFunds")
              <=> (\A S \in SUBSET positive_inputs :
                      LET idx == subset_indices(S)
                      IN  total(eff_of, idx, 1)
                            < options.target_value
                                + Max(fee_of(total(weight_of, idx, 1)),
                                      options.min_absolute_fee)
                                + options.min_change_value)
        /\ total(eff_of, all_indices, 1) < options.target_value + options.min_change_value
              => (~lc_result.ok /\ lc_result.err = "InsufficientFunds")

ll_result == algo_results["lowestlarger"]

\* select_coin_lowestlarger has just returned
ll_returned == pc = "knapsack"

\* C13: when select_coin_lowestlarger returns Ok (target_value > 0) the
\* selection is not empty and its values sum to at least target_value +
\* min_change_value + max(calculate_fee(base_weight), min_absolute_fee) +
\* calculate_fee(sum of the selected weights).
C13_LowestLargerCovers ==
    (ll_returned /\ ll_result.ok /\ options.target_value > 0) =>
        LET sel == ll_result.selected_inputs
        IN  /\ sel # <<>>
            /\ total(value_of, sel, 1)
                  >= options.target_value + options.min_change_value
                     + Max(fee_of(options.base_weight), options.min_absolute_fee)
                     + fee_of(total(weight_of, sel, 1))

C13_Witness ==
    /\ ll_returned /\ ll_result.ok
    /\ Len(ll_result.selected_inputs) >= 2
    /\ options.min_absolute_fee > 0
    /\ fee_of(total(weight_of, ll_result.selected_inputs, 1)) > 0

\* C14: select_coin_lowestlarger returns InsufficientFunds only when the
\* effective values of all inputs sum to less than target_value +
\* min_change_value + max(calculate_fee(base_weight), min_absolute_fee), and
\* returns Ok whenever they reach that amount and no arithmetic error occurs.
C14_InsufficientOnlyWhenShort ==
    ll_returned =>
        LET amount == options.target_value + options.min_change_value
                      + Max(fee_of(options.base_weight), options.min_absolute_fee)
        IN  /\ (~ll_result.ok /\ ll_result.err = "InsufficientFunds")
                  => total(eff_of, all_indices, 1) < amount
            /\ (ll_result.err \notin {"ArithmeticOverflow", "InvalidFeeRate"}
                  /\ total(eff_of, all_indices, 1) >= amount)
                  => ll_result.ok

\* C15: with a target_feerate calculate_fee rejects, each of select_coin_bnb,
\* select_coin_lowestlarger and select_coin_bnb_leastchange returns
\* InvalidFeeRate: none returns Ok or another error.
C15_InvalidFeeRatePropagates ==
    (inputs # <<>> /\ ~calculate_fee(0, options.target_feerate).ok) =>
        \A a \in {"bnb", "lowestlarger", "leastchange"} :
            algo_results[a] \notin {NotRun, Panicked}
                => (~algo_results[a].ok /\ algo_results[a].err = "InvalidFeeRate")

\* the successful results in the order a permuted algorithm table gives them
permuted_results(p) == [k \in 1..Len(results) |-> results[p[k]]]

\* C16: the result select_coin returns is the same for every order of the
\* algorithm table: reducing the same per-algorithm results in any order
\* gives the same index list and the same waste.
C16_OrderIndependent ==
    returned_ok =>
        \A p \in Permutations(Len(results)) :
            LET best == min_by(permuted_results(p), 2, permuted_results(p)[1]).result
            IN  /\ best.selected_inputs = output.selected_inputs
                /\ best.waste = output.waste

\* acc_effective of a selection: its effective values less the fee of its
\* summed weight, saturating at 0; the sums are the u64 the unchecked `+` of
\* bnb.rs:99-100 leaves
acc_effective(idx) ==
    saturating_sub(u64_total(eff_of, idx), fee_of(u64_total(weight_of, idx)))

\* the tests of bnb.rs:75-80 on an effective_value v
in_window(v) ==
    target_for_match <= v /\ v <= wrapping_add(target_for_match, match_range)

\* C17: select_coin_bnb is complete: when some subset of the inputs has its
\* acc_effective in [target_for_match, target_for_match + match_range] it
\* returns Ok, whether or not the subset holds the largest input.
C17_BnbComplete ==
    (bnb_returned
        /\ \E S \in SUBSET (1..Len(inputs)) : in_window(acc_effective(subset_indices(S))))
        => bnb_result.ok

\* the nodes of a search whose acc_effective is in the window, by position in
\* the order of examination
bnb_matching(nodes) == {k \in 1..Len(nodes) : nodes[k].matches}

\* C18: among the examined nodes whose acc_effective is in the window,
\* select_coin_bnb returns one of lowest waste, and of those of lowest waste
\* the one examined first (include branch before exclude branch).
C18_LowestWasteFirstFound ==
    bnb_returned =>
        LET nodes == bnb_search.nodes
            M == bnb_matching(nodes)
        IN  M # {} =>
              /\ bnb_result.ok
              /\ \E k \in M :
                   /\ nodes[k].selected = bnb_result.selected_inputs
                   /\ nodes[k].waste = bnb_result.waste
                   /\ \A j \in M : nodes[j].waste.v >= nodes[k].waste.v
                   /\ \A j \in M : j < k => nodes[j].waste.v > nodes[k].waste.v

\* the search met two matching nodes of equal waste, with different selections,
\* and select_coin_bnb returned the selection of the first
C18_Witness ==
    /\ bnb_returned
    /\ bnb_result.ok
    /\ LET nodes == bnb_search.nodes
           M == bnb_matching(nodes)
       IN  \E j, k \in M :
               /\ j < k
               /\ nodes[j].waste = nodes[k].waste
               /\ nodes[j].selected # nodes[k].selected
               /\ nodes[j].selected = bnb_result.selected_inputs

(* ------------- Branch and Bound, one call of bnb at a time ------------ *)

\* the options a search is started with: ToChange, a long-term rate given
BnbOptions ==
    {o \in SmallOptions \cup WideOptions :
        /\ o.target_value > 0
        /\ o.long_term_feerate.some
        /\ o.excess_strategy = "ToChange"}

\* ctx.tries on entry to bnb: the small numbers of tries a long search is left
\* with near its end
Budgets == 0..MaxTries

\* the slices and options a search runs on: the small ones, and the wide ones
\* with the options near u64::MAX
BnbInputs ==
    \/ inputs \in SmallLists /\ options \in BnbOptions \cap SmallOptions
    \/ inputs \in WideLists /\ options \in BnbOptions \cap WideOptions

\* the entry of select_coin_bnb
InitBnb ==
    /\ BnbInputs
    /\ pc = "bnb"
    /\ algo_results = [a \in {algorithms[i] : i \in 1..Len(algorithms)} |-> NotRun]
    /\ results = <<>>
    /\ output = NotRun
    /\ wrapped = FALSE
    /\ search = NewSearch(BnbTries)

\* a pending call bnb(sorted, selected, acc_value, acc_weight, depth, ctx)
BnbCallOf(selected, acc_value, acc_weight, depth) ==
    [selected |-> selected, acc_value |-> acc_value,
     acc_weight |-> acc_weight, depth |-> depth]

\* the entry of bnb at the root of the tree with a context the caller built:
\* the context of select_coin_bnb but for its tries, which are few
InitBnbCall ==
    /\ inputs \in SmallLists
    /\ options \in BnbOptions \cap SmallOptions
    /\ options.target_feerate >= 0
    /\ pc = "bnb_search"
    /\ algo_results = [a \in {algorithms[i] : i \in 1..Len(algorithms)} |-> NotRun]
    /\ results = <<>>
    /\ output = NotRun
    /\ wrapped = FALSE
    /\ \E t \in Budgets :
         search = [NewSearch(t) EXCEPT
                      !.target_for_match = target_for_match,
                      !.match_range = match_range,
                      !.calls = <<BnbCallOf(<<>>, 0, 0, 0)>>]

\* the builds a step can belong to: one that overflows panics when overflow
\* checks are on, unless an earlier step has already wrapped
builds(ovf) == IF ovf /\ ~wrapped THEN {"debug", "release"} ELSE {"release"}

\* select_coin_bnb, lines 23-42: the fees, the context and the first call
BnbStart ==
    /\ pc = "bnb"
    /\ LET cost_per_input ==
               calculate_fee(options.avg_input_weight, options.target_feerate)
           cost_per_output ==
               calculate_fee(options.avg_output_weight, options.target_feerate)
           base_fee == calculate_fee(options.base_weight, options.target_feerate)
       IN  IF ~cost_per_input.ok \/ ~cost_per_output.ok \/ ~base_fee.ok
           THEN /\ algo_results' =
                      [algo_results EXCEPT !["bnb"] =
                          ErrSelection(IF ~cost_per_input.ok THEN cost_per_input.err
                                       ELSE IF ~cost_per_output.ok
                                            THEN cost_per_output.err
                                            ELSE base_fee.err, FALSE)]
                /\ pc' = "done"
                /\ UNCHANGED <<search, wrapped>>
           ELSE LET c == bnb_context(options, base_fee.val, cost_per_input.val,
                                     cost_per_output.val)
                IN  \E build \in builds(c.ovf) :
                      IF build = "debug"
                      THEN /\ pc' = "panicked"
                           /\ algo_results' =
                                 [algo_results EXCEPT !["bnb"] = Panicked]
                           /\ UNCHANGED <<search, wrapped>>
                      ELSE /\ search' =
                                 [NewSearch(c.tries) EXCEPT
                                     !.target_for_match = c.target_for_match,
                                     !.match_range = c.match_range,
                                     !.calls = <<BnbCallOf(<<>>, 0, 0, 0)>>]
                           /\ wrapped' = (wrapped \/ c.ovf)
                           /\ pc' = "bnb_search"
                           /\ algo_results' = algo_results
    /\ UNCHANGED <<inputs, options, results, output>>

\* one call of bnb, lines 61-107: the call on top of the pending calls runs up
\* to its recursive calls, which become the next pending calls
BnbCall ==
    /\ pc = "bnb_search"
    /\ search.calls # <<>>
    /\ LET call == Head(search.calls)
           rest == Tail(search.calls)
       IN  IF bnb_guard(search.tries, call.depth, Len(bnb_sorted))
           THEN /\ search' = [search EXCEPT !.calls = rest]
                /\ UNCHANGED <<pc, algo_results, wrapped>>
           ELSE
             LET fee_r == calculate_fee(call.acc_weight, options.target_feerate)
                 fee == IF fee_r.ok THEN fee_r.val ELSE options.min_absolute_fee
                 eff == saturating_sub(call.acc_value, fee)
                 examined == [search EXCEPT !.tries = @ - 1, !.examined = @ + 1]
                 upper_ovf == overflows(search.target_for_match, search.match_range)
                 upper == wrapping_add(search.target_for_match, search.match_range)
                 index == bnb_sorted[call.depth + 1].idx
                 input == bnb_sorted[call.depth + 1].input
                 in_fee == calculate_fee(input.weight, options.target_feerate)
                 input_effective_value ==
                     saturating_sub(input.value,
                                    IF in_fee.ok THEN in_fee.val
                                    ELSE options.min_absolute_fee)
                 branches == ~(eff > upper) /\ ~(eff >= search.target_for_match)
                 ovf == \/ upper_ovf
                        \/ /\ branches
                           /\ \/ overflows(call.acc_value, input_effective_value)
                              \/ overflows(call.acc_weight, input.weight)
             IN  \E build \in builds(ovf) :
                   IF build = "debug"
                   THEN /\ pc' = "panicked"
                        /\ algo_results' = [algo_results EXCEPT !["bnb"] = Panicked]
                        /\ search' = examined
                        /\ wrapped' = wrapped
                   ELSE
                     /\ wrapped' = (wrapped \/ ovf)
                     /\ UNCHANGED <<pc, algo_results>>
                     /\ IF eff > upper
                        THEN search' = [examined EXCEPT !.calls = rest]
                        ELSE IF eff >= search.target_for_match
                        THEN LET waste == calculate_waste(options, call.acc_value,
                                                          call.acc_weight, fee)
                             IN  search' =
                                   [examined EXCEPT
                                      !.calls = rest,
                                      !.best_solution =
                                         IF ~@.some \/ WasteLt(waste, @.waste)
                                         THEN [some |-> TRUE,
                                               selected |-> call.selected,
                                               waste |-> waste]
                                         ELSE @]
                        ELSE LET include ==
                                     BnbCallOf(Append(call.selected, index),
                                               wrapping_add(call.acc_value,
                                                            input_effective_value),
                                               wrapping_add(call.acc_weight,
                                                            input.weight),
                                               call.depth + 1)
                                 exclude ==
                                     BnbCallOf(call.selected, call.acc_value,
                                               call.acc_weight, call.depth + 1)
                             IN  search' = [examined EXCEPT
                                               !.calls = <<include, exclude>> \o rest]
    /\ UNCHANGED <<inputs, options, results, output>>

\* select_coin_bnb, lines 44-50: the search is over
BnbReturn ==
    /\ pc = "bnb_search"
    /\ search.calls = <<>>
    /\ algo_results' =
          [algo_results EXCEPT !["bnb"] =
              IF search.best_solution.some
              THEN OkSelection(search.best_solution.selected,
                               search.best_solution.waste, wrapped)
              ELSE ErrSelection("NoSolutionFound", wrapped)]
    /\ pc' = "done"
    /\ UNCHANGED <<inputs, options, results, output, wrapped, search>>

NextBnb ==
    \/ BnbStart
    \/ BnbCall
    \/ BnbReturn

SpecBnb == (InitBnb \/ InitBnbCall) /\ [][NextBnb]_vars

\* the nodes a search examines when its context starts with search.budget tries
bnb_budget_search ==
    bnb_visited(bnb_sorted, <<>>, 0, 0, 0, bnb_ctx,
                [tries |-> search.budget, nodes |-> <<>>])

\* the context bnb leaves when it is called with search.budget tries
bnb_budget_done ==
    bnb(bnb_sorted, <<>>, 0, 0, 0, [bnb_ctx EXCEPT !.tries = search.budget])

\* select_coin_bnb has returned from a search run call by call
bnb_search_returned == pc = "done" /\ options.target_feerate >= 0

\* C19: the context is built with 1,000,000 tries; the counter goes down by one
\* for each node examined and never below 0, so no node is examined at 0 and a
\* search examines at most as many nodes as it had tries; when the tries run
\* out the nodes examined are the first ones of the unbounded search and
\* select_coin_bnb returns the best solution among them, or NoSolutionFound.
C19_TryCounter ==
    /\ bnb_context(options, 0, 0, 0).tries = BnbTries
    /\ search.tries >= 0
    /\ search.tries = search.budget - search.examined
    /\ bnb_search_returned =>
         LET nodes == bnb_budget_search.nodes
             full == bnb_search.nodes
             M == bnb_matching(nodes)
             best == bnb_budget_done.best_solution
         IN  /\ search.examined = Len(nodes)
             /\ Len(nodes) = Min(search.budget, Len(full))
             /\ nodes = SubSeq(full, 1, Len(nodes))
             /\ best = search.best_solution
             /\ bnb_result.ok = (M # {})
             /\ M = {} => bnb_result.err = "NoSolutionFound"
             /\ M # {} =>
                  \E k \in M :
                    /\ nodes[k].selected = bnb_result.selected_inputs
                    /\ nodes[k].waste = bnb_result.waste
                    /\ \A j \in M : nodes[j].waste.v >= nodes[k].waste.v
                    /\ \A j \in M : j < k => nodes[j].waste.v > nodes[k].waste.v

\* a search ran out of tries with nodes left to examine, and select_coin_bnb
\* returned the solution recorded so far
C19_Witness ==
    /\ bnb_search_returned
    /\ search.budget > 0
    /\ search.tries = 0
    /\ Len(bnb_search.nodes) > search.budget
    /\ bnb_result.ok
    /\ bnb_result.selected_inputs = search.best_solution.selected

\* the outcome of a selection apart from its overflow flag
outcome(r) == [ok |-> r.ok, selected_inputs |-> r.selected_inputs,
               waste |-> r.waste, err |-> r.err]

\* C20: the pruning of select_coin_bnb_leastchange is sound: the result is the
\* one the same search gives with the prune step removed, that is, run against
\* a pruning target of 0, which no u64 is below.
C20_PruneSound ==
    lc_returned =>
        LET unpruned ==
                leastchange_with(inputs, options, 0,
                                 overflows(options.target_value,
                                           options.min_change_value))
        IN  outcome(lc_result) = outcome(unpruned)

\* the coverage condition of lowest larger for a selection: its values sum to
\* at least target + calculate_fee(its summed weight), every sum checked
ll_covers(sel) ==
    LET target == ll_target(options)
        accumulated_value == total(value_of, sel, 1)
        accumulated_weight == total(weight_of, sel, 1)
        need == sum(target.val, fee_of(accumulated_weight))
    IN  /\ target.ok
        /\ accumulated_value <= U64Max
        /\ accumulated_weight <= U64Max
        /\ need.ok
        /\ accumulated_value >= need.val

\* C21: select_coin_lowestlarger stops accumulating at the first input after
\* which the coverage condition holds: in an Ok result no proper prefix of the
\* returned list, the list without its last index among them, covers.
C21_StopsAtFirstCover ==
    (ll_returned /\ ll_result.ok) =>
        LET sel == ll_result.selected_inputs
        IN  \A k \in 0..(Len(sel) - 1) : ~ll_covers(SubSeq(sel, 1, k))

\* C22: a selection select_coin_bnb_leastchange returns is feasible under the
\* weight-dependent fee: its effective values sum to at least target_value +
\* max(calculate_fee(its summed weight), min_absolute_fee) + min_change_value.
C22_LeastChangeFeasible ==
    (lc_returned /\ lc_result.ok) =>
        LET sel == lc_result.selected_inputs
        IN  total(eff_of, sel, 1)
              >= options.target_value
                   + Max(fee_of(total(weight_of, sel, 1)), options.min_absolute_fee)
                   + options.min_change_value

\* the inputs select_coin_bnb_leastchange searches, sorted
lc_retained == lc_sorted(inputs, options)

\* C23: select_coin_bnb_leastchange searches exactly the inputs whose effective
\* value at target_feerate is positive, and a selection it returns holds no
\* index of an input whose effective value is 0.
C23_DropsNonPositive ==
    lc_returned =>
        /\ LET kept == lc_retained
           IN  {kept[k].idx + 1 : k \in 1..Len(kept)} = positive_inputs
        /\ lc_result.ok =>
             \A k \in 1..Len(lc_result.selected_inputs) :
                 eff_of[lc_result.selected_inputs[k] + 1] > 0

\* select_coin_bnb_leastchange returned a selection from a slice that holds an
\* input of effective value 0 although its value is positive
C23_Witness ==
    /\ lc_returned
    /\ lc_result.ok
    /\ \E i \in 1..Len(inputs) : eff_of[i] = 0 /\ inputs[i].value > 0

\* the inputs sorted as select_coin_lowestlarger sorts them (the rate valid)
ll_sorted_inputs == ll_sorted(inputs, options)

\* the input at position i (1-based) belongs to the prefix: its value is at
\* most target + calculate_fee(its weight)
ll_in_prefix(i) == ll_small(inputs[i], ll_target(options).val, options)

\* the original indices of a run of sorted items
ll_indices(items) == [k \in 1..Len(items) |-> items[k].idx]

\* C24: the list select_coin_lowestlarger returns is in accumulation order:
\* inputs of the prefix (value <= target + calculate_fee(weight)) from the
\* largest effective value down, then, only when the whole prefix was taken,
\* inputs of the suffix from the smallest effective value up.
C24_AccumulationOrder ==
    (ll_returned /\ ll_result.ok) =>
        LET sel == ll_result.selected_inputs
            sorted == ll_sorted_inputs
            pos == [j \in 1..Len(sel) |->
                      CHOOSE k \in 1..Len(sorted) : sorted[k].idx = sel[j]]
            pre == {j \in 1..Len(sel) : ll_in_prefix(sel[j] + 1)}
            suf == (1..Len(sel)) \ pre
        IN  /\ \A j \in pre, k \in suf : j < k
            /\ \A j, k \in pre :
                 j < k => /\ eff_of[sel[j] + 1] >= eff_of[sel[k] + 1]
                          /\ (k = j + 1 => pos[k] = pos[j] - 1)
            /\ \A j, k \in suf :
                 j < k => /\ eff_of[sel[j] + 1] <= eff_of[sel[k] + 1]
                          /\ (k = j + 1 => pos[k] = pos[j] + 1)
            /\ suf # {} =>
                 \A i \in 1..Len(inputs) :
                     ll_in_prefix(i) => \E j \in pre : sel[j] + 1 = i

\* select_coin_lowestlarger took the whole prefix without covering the target
\* and went on into the suffix
C24_Witness ==
    /\ ll_returned
    /\ ll_result.ok
    /\ \E j, k \in 1..Len(ll_result.selected_inputs) :
         /\ j < k
         /\ ll_in_prefix(ll_result.selected_inputs[j] + 1)
         /\ ~ll_in_prefix(ll_result.selected_inputs[k] + 1)

\* C25 as claimed: select_coin_bnb_leastchange considers the retained inputs,
\* and lists the indices of the selection it returns, in descending order of
\* the value field.
C25_DescendingValue ==
    lc_returned =>
        /\ LET kept == lc_retained
           IN  \A j, k \in 1..Len(kept) :
                   j < k => value_of[kept[j].idx + 1] >= value_of[kept[k].idx + 1]
        /\ lc_result.ok =>
             LET sel == lc_result.selected_inputs
             IN  \A j, k \in 1..Len(sel) :
                     j < k => value_of[sel[j] + 1] >= value_of[sel[k] + 1]

\* the input at 0-based index a comes before the one at b in the order of
\* line 38: the larger effective value first, equal ones in slice order
lc_before(a, b) ==
    \/ eff_of[a + 1] > eff_of[b + 1]
    \/ eff_of[a + 1] = eff_of[b + 1] /\ a < b

\* C25, amended: select_coin_bnb_leastchange considers the retained inputs,
\* and lists the indices of the selection it returns, in descending order of
\* effective value (net value), inputs of equal effective value in slice order.
C25_DescendingNetValue ==
    lc_returned =>
        /\ LET kept == lc_retained
           IN  \A j, k \in 1..Len(kept) :
                   j < k => lc_before(kept[j].idx, kept[k].idx)
        /\ lc_result.ok =>
             LET sel == lc_result.selected_inputs
             IN  \A j, k \in 1..Len(sel) : j < k => lc_before(sel[j], sel[k])

\* select_coin_bnb_leastchange returned a selection in which an input of
\* smaller value comes before one of larger value
C25_Witness ==
    /\ lc_returned
    /\ lc_result.ok
    /\ LET sel == lc_result.selected_inputs
       IN  \E j, k \in 1..Len(sel) :
               j < k /\ value_of[sel[j] + 1] < value_of[sel[k] + 1]

\* the input at 0-based index a comes before the one at b in the order of
\* bnb.rs:28: the smaller value first, equal ones in slice order
bnb_before(a, b) ==
    \/ value_of[a + 1] < value_of[b + 1]
    \/ value_of[a + 1] = value_of[b + 1] /\ a < b

\* C26: the list select_coin_bnb returns is in discovery order: original
\* indices in ascending order of the value field, inputs of equal value in
\* slice order, as the depth-first search included them.
C26_DiscoveryOrder ==
    (pc = "fifo" /\ bnb_result.ok) =>
        LET sel == bnb_result.selected_inputs
            sorted == ll_indices(bnb_sorted)
        IN  /\ \A j, k \in 1..Len(sel) : j < k => bnb_before(sel[j], sel[k])
            /\ \E S \in SUBSET (1..Len(sorted)) :
                 sel = [k \in 1..Cardinality(S) |-> sorted[subset_indices(S)[k] + 1]]

\* select_coin_bnb returned two or more inputs that the sort had moved: a
\* later index of the slice comes first in the list
C26_Witness ==
    /\ pc = "fifo"
    /\ bnb_result.ok
    /\ LET sel == bnb_result.selected_inputs
       IN  \E j, k \in 1..Len(sel) : j < k /\ sel[j] > sel[k]

====
